---------------------------- MODULE Spec2Model ----------------------------
(***************************************************************************)
(* Model of the momentum trading engine: trading_client.py (the live       *)
(* recalibration cycle) and backtesting.py (CryptoMomentumStrategy, which  *)
(* runs the same cycle against mocked gateway calls).                      *)
(*                                                                         *)
(* Numbers.  Indicators, prices and balances are drawn from small sets of  *)
(* integers; order amounts are exact fractions <<n, d>> in lowest terms    *)
(* with d >= 0, so the divisions of the sizing step are computed and not   *)
(* rounded.  main hands recalibrate_position numpy floats read from the    *)
(* data frame, for which a division by zero yields an infinity and a       *)
(* warning, not an exception: <<1, 0>> is +inf and <<-1, 0>> is -inf.      *)
(* (Called with Python floats the same division raises ZeroDivisionError;  *)
(* the backtest feeds the cycle positive prices only.)                     *)
(***************************************************************************)
EXTENDS Integers, Sequences, FiniteSets, TLC

VARIABLES
    indicators,        \* (ma, ema, atr, price) handed to the last cycle
    gateway,           \* what the gateway answered in the last cycle
    calls,             \* gateway calls issued by the last cycle, in order
    err,               \* exception that ended the last handler, or "none"
    long,              \* CryptoMomentumStrategy.long: a position, or None
    short,             \* CryptoMomentumStrategy.short: a position, or None
    bar,               \* CryptoMomentumStrategy.bar is set
    bar_count,         \* CryptoMomentumStrategy.bar_count
    market_price,      \* CryptoMomentumStrategy.market_price
    current_position,  \* CryptoMomentumStrategy.current_position
    was_long,          \* CryptoMomentumStrategy.was_long
    pos,               \* the broker's positions: what was submitted and answered
    last               \* the last handler run and what it asked of the broker

cycle == <<indicators, gateway, calls>>

strategy == <<long, short, bar, bar_count, market_price, current_position, was_long,
              pos, last>>

vars == <<indicators, gateway, calls, err, long, short, bar, bar_count, market_price,
          current_position, was_long, pos, last>>

-----------------------------------------------------------------------------
(* Bounds of the model *)

MaxAtr == 2
MaxBars == 7
MaxPositions == 2
Atrs == -1 .. MaxAtr
Mas == {100, 105}
Emas == {100, 105}
Prices == {0, 10, 400}
EntryPrices == {100}
BalanceValues == {40, 400}
BarPrices == {10}
BarAtrs == {1}
Equities == {400}
SizeValues == {2}

-----------------------------------------------------------------------------
(* Exact fractions *)

Abs(x) == IF x < 0 THEN -x ELSE x

RECURSIVE GCD(_, _)
GCD(a, b) == IF b = 0 THEN a ELSE GCD(b, a % b)

\* n / d in lowest terms; n / 0 is the infinity of n's sign (n # 0)
Frac(n, d) ==
    LET g == GCD(Abs(n), Abs(d))
        s == IF d < 0 THEN -1 ELSE 1
    IN  <<(s * n) \div g, (s * d) \div g>>

FracMul(a, b) == Frac(a[1] * b[1], a[2] * b[2])
FracDiv(a, b) == Frac(a[1] * b[2], a[2] * b[1])
FracLeq(a, b) == a[1] * b[2] <= b[1] * a[2]
FracLt(a, b) == a[1] * b[2] < b[1] * a[2]
FromInt(n) == <<n, 1>>

-----------------------------------------------------------------------------
(* trading_client.py: settings *)

EQUITY_AMOUNT == <<3, 4>>          \* 0.75
ACCOUNT_LEVERAGE == 5
RISK_MULTIPLIER == <<1, 10>>       \* 0.10
WAIT_IF_STOP_LOSS == TRUE

-----------------------------------------------------------------------------
(* Gateway calls, as the cycle issues them *)

NoParams == [given |-> FALSE, reduceOnly |-> FALSE, triggerPrice |-> 0]

\* a call that is not create_order
Request(op) ==
    [op |-> op, type |-> "-", side |-> "-", amount |-> <<0, 1>>, params |-> NoParams]

\* exchange.create_order(CRYPTO_SYMBOL, type, side, amount[, params=...])
CreateOrder(type, side, amount, params) ==
    [op |-> "create_order", type |-> type, side |-> side, amount |-> amount,
     params |-> params]

\* stop_params = {'reduceOnly': True, 'triggerPrice': ...}
StopParams(trigger) == [given |-> TRUE, reduceOnly |-> TRUE, triggerPrice |-> trigger]

\* search_current_position() -> {} or the latest position
NoPosition == [present |-> FALSE, side |-> "-", size |-> <<0, 1>>, entryPrice |-> 0]

Position(side, size, entryPrice) ==
    [present |-> TRUE, side |-> side, size |-> size, entryPrice |-> entryPrice]

Currents ==
    {NoPosition} \cup
    {Position(sd, FromInt(sz), ep) : sd \in {"buy", "sell"}, sz \in SizeValues,
                                      ep \in EntryPrices}

\* The answers of the live gateway in one cycle.  An answer the cycle cannot
\* use (after a failed request) is left at its default.
Gateways ==
    {g \in [stop : {"clear", "triggered", "failed"},
            pos_ok : BOOLEAN, current : Currents,
            bal_ok : BOOLEAN, balance : BalanceValues \cup {0}] :
        /\ ~g.pos_ok => g.current = NoPosition
        /\ (g.bal_ok <=> g.balance # 0)}

NoIndicators == [ma |-> 0, ema |-> 0, atr |-> 0, price |-> 0]

NoGateway ==
    [stop |-> "clear", pos_ok |-> TRUE, current |-> NoPosition,
     bal_ok |-> FALSE, balance |-> 0]

-----------------------------------------------------------------------------
(* trading_client.py: recalibrate_position *)

\* if WAIT_IF_STOP_LOSS and stop_was_triggered(): return
CooldownSkipNever(gw) == FALSE
CooldownSkip(gw) == WAIT_IF_STOP_LOSS /\ gw.stop = "triggered"

\* the reversal tests on the current position
ReverseLong(current, ma, ema) == current.side = "buy" /\ ma > ema

ReverseShort(current, ma, ema) ==
    ~ReverseLong(current, ma, ema) /\ current.side = "sell" /\ ema > ma

\* the closing order of a reversal: the entire position amount
ClosingOrdersSameSide(current, ma, ema) ==
    IF ~current.present THEN <<>>
    ELSE IF ReverseLong(current, ma, ema)
         THEN <<CreateOrder("market", "buy", current.size, NoParams)>>
    ELSE IF ReverseShort(current, ma, ema)
         THEN <<CreateOrder("market", "sell", current.size, NoParams)>>
    ELSE <<>>
ClosingOrders(current, ma, ema) ==
    IF ~current.present THEN <<>>
    ELSE IF ReverseLong(current, ma, ema)
         THEN <<CreateOrder("market", "sell", current.size, NoParams)>>
    ELSE IF ReverseShort(current, ma, ema)
         THEN <<CreateOrder("market", "buy", current.size, NoParams)>>
    ELSE <<>>

ShouldRepositionAlways(current, ma, ema) == current.present
ShouldReposition(current, ma, ema) ==
    current.present /\ (ReverseLong(current, ma, ema) \/ ReverseShort(current, ma, ema))

\* max_amount = (EQUITY_AMOUNT * ACCOUNT_LEVERAGE * account_balance) / price
max_amount(balance, price) ==
    FracDiv(FracMul(FracMul(EQUITY_AMOUNT, FromInt(ACCOUNT_LEVERAGE)), FromInt(balance)),
            FromInt(price))

\* risk_adjusted_amount = (account_balance * RISK_MULTIPLIER) / (atr * 2)
risk_adjusted_amount_times_atr(balance, atr) ==
    FracMul(FracMul(FromInt(balance), RISK_MULTIPLIER), FromInt(atr * 2))
risk_adjusted_amount(balance, atr) ==
    FracDiv(FracMul(FromInt(balance), RISK_MULTIPLIER), FromInt(atr * 2))

\* new_amount = risk_adjusted_amount if risk_adjusted_amount <= max_amount else max_amount
new_amount_flipped(balance, price, atr) ==
    IF FracLeq(risk_adjusted_amount(balance, atr), max_amount(balance, price))
    THEN max_amount(balance, price)
    ELSE risk_adjusted_amount(balance, atr)
new_amount(balance, price, atr) ==
    IF FracLeq(risk_adjusted_amount(balance, atr), max_amount(balance, price))
    THEN risk_adjusted_amount(balance, atr)
    ELSE max_amount(balance, price)

\* the entry and its protective stop
EntryOrdersOnTie(ma, ema, atr, price, amount) ==
    IF ma > ema
    THEN <<CreateOrder("market", "sell", amount, NoParams),
           CreateOrder("stop", "buy", amount, StopParams(price + atr * 2))>>
    ELSE <<CreateOrder("market", "buy", amount, NoParams),
           CreateOrder("stop", "sell", amount, StopParams(price - atr * 2))>>
EntryOrdersStopFirst(ma, ema, atr, price, amount) ==
    IF ma > ema
    THEN <<CreateOrder("stop", "buy", amount, StopParams(price + atr * 2)),
           CreateOrder("market", "sell", amount, NoParams)>>
    ELSE IF ema > ma
    THEN <<CreateOrder("stop", "sell", amount, StopParams(price - atr * 2)),
           CreateOrder("market", "buy", amount, NoParams)>>
    ELSE <<>>
EntryOrders(ma, ema, atr, price, amount) ==
    IF ma > ema
    THEN <<CreateOrder("market", "sell", amount, NoParams),
           CreateOrder("stop", "buy", amount, StopParams(price + atr * 2))>>
    ELSE IF ema > ma
    THEN <<CreateOrder("market", "buy", amount, NoParams),
           CreateOrder("stop", "sell", amount, StopParams(price - atr * 2))>>
    ELSE <<>>

\* lines 121-142: cancel the pending stops, size the new position, enter
RepositionBalanceFirst(ma, ema, atr, price, gw) ==
    LET head == <<Request("fetch_account_balance"), Request("cancel_all_orders")>>
    IN  IF ~gw.bal_ok
        THEN [calls |-> <<Request("fetch_account_balance")>>,
              err |-> "request failed to retrieve account balance"]
        ELSE [calls |-> head \o EntryOrders(ma, ema, atr, price,
                                            new_amount(gw.balance, price, atr)),
              err |-> "none"]
Reposition(ma, ema, atr, price, gw) ==
    LET head == <<Request("cancel_all_orders"), Request("fetch_account_balance")>>
    IN  IF ~gw.bal_ok
        THEN [calls |-> head, err |-> "request failed to retrieve account balance"]
        ELSE [calls |-> head \o EntryOrders(ma, ema, atr, price,
                                            new_amount(gw.balance, price, atr)),
              err |-> "none"]

\* The whole cycle against a gateway whose create_order and cancel_all_orders
\* return: the calls it issues, in order, and the exception that ends it.
recalibrate_position(ma, ema, atr, price, gw) ==
    LET stop == IF WAIT_IF_STOP_LOSS THEN <<Request("stop_was_triggered")>> ELSE <<>>
        look == stop \o <<Request("search_current_position")>>
        current == gw.current
        closing == ClosingOrders(current, ma, ema)
    IN  IF WAIT_IF_STOP_LOSS /\ gw.stop = "failed"
        THEN [calls |-> stop, err |-> "request failed to retrieve stop order history"]
        ELSE IF CooldownSkip(gw)
        THEN [calls |-> stop, err |-> "none"]
        ELSE IF ~gw.pos_ok
        THEN [calls |-> look, err |-> "request failed to retrieve account positions"]
        ELSE IF ~current.present \/ ShouldReposition(current, ma, ema)
        THEN LET r == Reposition(ma, ema, atr, price, gw)
             IN  [calls |-> look \o closing \o r.calls, err |-> r.err]
        ELSE [calls |-> look \o closing, err |-> "none"]

-----------------------------------------------------------------------------
(* backtesting.py: CryptoMomentumStrategy *)

\* The lookbacks the strategy is constructed with (main passes MA_LOOKBACK,
\* EMA_LOOKBACK and ATR_LOOKBACK; the model constructs it with short ones).
ma_look == 1
ema_look == 1
atr_look == 0

Max2(a, b) == IF a >= b THEN a ELSE b

\* self.longest_look = 4 * max([ma_look, ema_look, atr_look + 1])
longest_look == 4 * Max2(ma_look, Max2(ema_look, atr_look + 1))

None == 0
Ids == 1 .. MaxPositions

POSITION_ERROR == "position must be short or long"
TYPE_ERROR == "TypeError: 'NoneType' object is not subscriptable"

\* A position object of the broker: the entry order it was created with, and
\* what has been answered to its entry and exit orders so far.
NoBrokerPosition ==
    [created |-> FALSE, side |-> "-", qty |-> <<0, 1>>,
     entry |-> "none", exit |-> "none"]

\* position.getShares(): nothing before the entry order is filled
getShares(ps, p) ==
    IF ps[p].entry = "filled" /\ ps[p].exit # "filled"
    THEN (IF ps[p].side = "long" THEN ps[p].qty ELSE <<-ps[p].qty[1], ps[p].qty[2]>>)
    ELSE <<0, 1>>

FracAbs(a) == <<Abs(a[1]), a[2]>>

\* what a handler asks of the broker
ExitMarket(ps, p) ==
    [op |-> "exitMarket", position |-> p, side |-> ps[p].side, qty |-> ps[p].qty]

EnterStop(p, side, qty) ==
    [op |-> IF side = "long" THEN "enterLongStop" ELSE "enterShortStop",
     position |-> p, side |-> side, qty |-> qty]

Created == {p \in Ids : pos[p].created}

\* position.exitMarket(): an exit order for the position is outstanding
exitMarket(ps, p) == [ps EXCEPT ![p].exit = "pending"]

HasFreeId(ps) == \E p \in Ids : ~ps[p].created

FreeId(ps) == CHOOSE p \in Ids : ~ps[p].created /\ \A q \in Ids : q < p => ps[q].created

\* The strategy fields simulate_market_order reads and writes, while a cycle
\* is being run: handles, was_long, the broker's positions, what was asked of
\* the broker (emitted), the exception raised (err), the gateway calls made
\* (made) and whether the model ran out of position objects (full).
StrategyState ==
    [long |-> long, short |-> short, was_long |-> was_long, pos |-> pos,
     emitted |-> <<>>, err |-> "none", made |-> 0, full |-> FALSE]

\* self.long = self.enterLongStop(instrument, params['triggerPrice'], args[3], ...)
\* and its short twin: params is None for an order placed without params.
Enter(st, c) ==
    IF ~c.params.given THEN [st EXCEPT !.err = TYPE_ERROR]
    ELSE IF ~HasFreeId(st.pos) THEN [st EXCEPT !.full = TRUE]
    ELSE LET p == FreeId(st.pos)
             side == IF c.side = "buy" THEN "long" ELSE "short"
             made == [NoBrokerPosition EXCEPT !.created = TRUE, !.side = side,
                          !.qty = c.amount, !.entry = "pending"]
         IN  [st EXCEPT !.pos = [st.pos EXCEPT ![p] = made],
                        !.long = IF side = "long" THEN p ELSE st.long,
                        !.short = IF side = "short" THEN p ELSE st.short,
                        !.emitted = Append(st.emitted, EnterStop(p, side, c.amount))]

\* simulate_market_order(*args, params=None), the side effect of the patched
\* create_order; hasBar is "self.bar"
simulate_market_order_no_guard(st, c, hasBar) ==
    IF c.side \in {"buy", "sell"} THEN Enter(st, c)
    ELSE [st EXCEPT !.err = POSITION_ERROR]
simulate_market_order(st, c, hasBar) ==
    IF ~hasBar THEN st
    ELSE IF st.long # None
    THEN [st EXCEPT !.was_long = "True",
                    !.pos = exitMarket(st.pos, st.long),
                    !.emitted = Append(st.emitted, ExitMarket(st.pos, st.long)),
                    !.long = None]
    ELSE IF st.short # None
    THEN [st EXCEPT !.was_long = "False",
                    !.pos = exitMarket(st.pos, st.short),
                    !.emitted = Append(st.emitted, ExitMarket(st.pos, st.short)),
                    !.short = None]
    ELSE IF c.side \in {"buy", "sell"} THEN Enter(st, c)
    ELSE [st EXCEPT !.err = POSITION_ERROR]

\* One gateway call of the cycle as onBars patches it: create_order runs
\* simulate_market_order, the three queries are mocks with return values, and
\* cancel_all_orders, which is not patched, is taken to return.
MockedCall(st, c, hasBar) ==
    LET after == IF c.op = "create_order" THEN simulate_market_order(st, c, hasBar)
                 ELSE st
    IN  [after EXCEPT !.made = st.made + 1]

\* the calls of a cycle, one after the other, up to the first that raises
RECURSIVE RunMocked(_, _, _)
RunMocked(st, cs, hasBar) ==
    IF cs = <<>> \/ st.err # "none" \/ st.full THEN st
    ELSE RunMocked(MockedCall(st, Head(cs), hasBar), Tail(cs), hasBar)

\* update_position(), after onBars has reset current_position to {}
update_position(lg, sh, ps, price) ==
    IF lg # None THEN Position("buy", getShares(ps, lg), price)
    ELSE IF sh # None THEN Position("sell", FracAbs(getShares(ps, sh)), price)
    ELSE NoPosition

\* trigger_mock.return_value
trigger_mock(cur, count) == ~(cur.present \/ count = longest_look)

NoHandler ==
    [handler |-> "-", position |-> None, defined |-> TRUE, again |-> FALSE,
     emitted |-> <<>>]

\* The handler that ran last: its position argument, whether the broker had
\* the confirmed or canceled order outstanding (defined), whether it repeats
\* the handler before it (again), and what it asked of the broker (emitted).
Handler(name, p, defined, emitted) ==
    [handler |-> name, position |-> p, defined |-> defined,
     again |-> (last.handler = name /\ last.position = p), emitted |-> emitted]

Init ==
    /\ indicators = NoIndicators
    /\ gateway = NoGateway
    /\ calls = <<>>
    /\ err = "none"
    /\ long = None
    /\ short = None
    /\ bar = FALSE
    /\ bar_count = 0
    /\ market_price = 0
    /\ current_position = NoPosition
    /\ was_long = "None"
    /\ pos = [p \in Ids |-> NoBrokerPosition]
    /\ last = NoHandler

\* An exception raised by a handler ends strategy.run(): nothing is
\* dispatched afterwards.
Running == err = "none"

\* if self.bar_count < self.longest_look: return
WarmingUpOffByOne(count) == count <= longest_look
WarmingUp(count) == count < longest_look

\* a handler that runs no cycle
NoCycle ==
    /\ indicators' = NoIndicators
    /\ gateway' = NoGateway
    /\ calls' = <<>>

\* onBars(bars), with recalibrate_position run against the mocks
onBars ==
    \E price \in BarPrices, ma \in Mas, ema \in Emas, atr \in BarAtrs,
       equity \in Equities :
        LET count == bar_count + 1
            gw == [stop |-> IF trigger_mock(current_position, count)
                            THEN "triggered" ELSE "clear",
                   pos_ok |-> TRUE, current |-> current_position,
                   bal_ok |-> TRUE, balance |-> equity]
            plan == recalibrate_position(ma, ema, atr, price, gw)
            st == RunMocked(StrategyState, plan.calls, TRUE)
            changed == (long # None) # (st.long # None)
                       \/ (short # None) # (st.short # None)
        IN  /\ Running
            /\ bar_count < MaxBars
            /\ bar' = TRUE
            /\ market_price' = price
            /\ bar_count' = count
            /\ IF WarmingUp(count)
               THEN /\ NoCycle
                    /\ UNCHANGED <<err, long, short, current_position, was_long, pos>>
                    /\ last' = Handler("onBars", None, TRUE, <<>>)
               ELSE /\ ~st.full
                    /\ indicators' = [ma |-> ma, ema |-> ema, atr |-> atr, price |-> price]
                    /\ gateway' = gw
                    /\ calls' = SubSeq(plan.calls, 1, st.made)
                    /\ err' = IF st.err # "none" THEN st.err ELSE plan.err
                    /\ long' = st.long
                    /\ short' = st.short
                    /\ was_long' = st.was_long
                    /\ pos' = st.pos
                    /\ current_position' =
                          IF st.err = "none" /\ changed
                          THEN update_position(st.long, st.short, st.pos, price)
                          ELSE current_position
                    /\ last' = Handler("onBars", None, TRUE, st.emitted)

\* The broker's callbacks.  The broker hands the strategy position objects it
\* has created; an event is "defined" when the order it answers is the one
\* outstanding for the position, and only then changes the broker's books.

\* onEnterOk(position): the entry order is reported filled
onEnterOk(p) ==
    /\ Running /\ p \in Created
    /\ pos' = IF pos[p].entry = "pending" THEN [pos EXCEPT ![p].entry = "filled"] ELSE pos
    /\ err' = IF long = p \/ short = p THEN "none" ELSE POSITION_ERROR
    /\ last' = Handler("onEnterOk", p,
                       pos[p].entry = "pending" /\ (long = p \/ short = p), <<>>)
    /\ NoCycle
    /\ UNCHANGED <<long, short, bar, bar_count, market_price, current_position, was_long>>

\* onEnterCanceled(position): the entry order is reported canceled
onEnterCanceled(p) ==
    /\ Running /\ p \in Created
    /\ pos' = IF pos[p].entry = "pending" THEN [pos EXCEPT ![p].entry = "canceled"] ELSE pos
    /\ long' = IF long = p THEN None ELSE long
    /\ short' = IF long # p /\ short = p THEN None ELSE short
    /\ err' = IF long = p \/ short = p THEN "none" ELSE POSITION_ERROR
    /\ last' = Handler("onEnterCanceled", p,
                       pos[p].entry = "pending" /\ (long = p \/ short = p), <<>>)
    /\ NoCycle
    /\ UNCHANGED <<bar, bar_count, market_price, current_position, was_long>>

\* onExitOk(position): the exit order is reported filled
onExitOk(p) ==
    /\ Running /\ p \in Created
    /\ pos' = IF pos[p].exit = "pending" THEN [pos EXCEPT ![p].exit = "filled"] ELSE pos
    /\ err' = IF was_long = "None" THEN POSITION_ERROR ELSE "none"
    /\ last' = Handler("onExitOk", p, pos[p].exit = "pending", <<>>)
    /\ NoCycle
    /\ UNCHANGED <<long, short, bar, bar_count, market_price, current_position, was_long>>

\* position.exitMarket() in onExitCanceled: the books after it, and the request
ResubmitNothing(ps, p) == [ps |-> [ps EXCEPT ![p].exit = "canceled"], emitted |-> <<>>]
Resubmit(ps, p) == [ps |-> exitMarket(ps, p), emitted |-> <<ExitMarket(ps, p)>>]

\* onExitCanceled(position): the exit order is reported canceled
onExitCanceled(p) ==
    /\ Running /\ p \in Created
    /\ pos' = Resubmit(pos, p).ps
    /\ err' = "none"
    /\ last' = Handler("onExitCanceled", p, pos[p].exit = "pending",
                       Resubmit(pos, p).emitted)
    /\ NoCycle
    /\ UNCHANGED <<long, short, bar, bar_count, market_price, current_position, was_long>>

\* The patched create_order reached by a client other than the cycle above:
\* any side, with or without params.
OrderSides == {"buy", "sell", "-"}

create_order_mock ==
    \E side \in OrderSides, amount \in SizeValues, given \in BOOLEAN :
        LET c == CreateOrder("market", side, FromInt(amount),
                             IF given THEN StopParams(0) ELSE NoParams)
            st == simulate_market_order(StrategyState, c, bar)
        IN  /\ Running
            /\ ~st.full
            /\ long' = st.long
            /\ short' = st.short
            /\ was_long' = st.was_long
            /\ pos' = st.pos
            /\ err' = st.err
            /\ last' = Handler("create_order", None, TRUE, st.emitted)
            /\ NoCycle
            /\ UNCHANGED <<bar, bar_count, market_price, current_position>>

Next ==
    \/ onBars
    \/ \E p \in Ids : onEnterOk(p)
    \/ \E p \in Ids : onEnterCanceled(p)
    \/ \E p \in Ids : onExitOk(p)
    \/ \E p \in Ids : onExitCanceled(p)
    \/ create_order_mock

Spec == Init /\ [][Next]_vars

-----------------------------------------------------------------------------
(* trading_client.py: main, one invocation per scheduled trigger *)

main ==
    \E ma \in Mas, ema \in Emas, atr \in Atrs, price \in Prices, gw \in Gateways :
        LET r == recalibrate_position(ma, ema, atr, price, gw)
        IN  /\ indicators' = [ma |-> ma, ema |-> ema, atr |-> atr, price |-> price]
            /\ gateway' = gw
            /\ calls' = r.calls
            /\ err' = r.err
            /\ UNCHANGED strategy

NextLive == main

SpecLive == Init /\ [][NextLive]_vars

-----------------------------------------------------------------------------
(* Reading a cycle's calls *)

IsOrder(c) == c.op = "create_order"

Orders(cs) == SelectSeq(cs, IsOrder)

Issued(cs, op) == \E i \in DOMAIN cs : cs[i].op = op

\* the calls issued after the balance was fetched: the entry and its stop
AfterBalance(cs) ==
    IF Issued(cs, "fetch_account_balance")
    THEN LET i == CHOOSE k \in DOMAIN cs : cs[k].op = "fetch_account_balance"
         IN  SubSeq(cs, i + 1, Len(cs))
    ELSE <<>>

\* the orders issued before the pending stops are cancelled: the closing order
BeforeCancel(cs) ==
    IF Issued(cs, "cancel_all_orders")
    THEN LET i == CHOOSE k \in DOMAIN cs : cs[k].op = "cancel_all_orders"
         IN  Orders(SubSeq(cs, 1, i - 1))
    ELSE Orders(cs)

\* a cycle has run and was not skipped by the cooldown, and the position
\* query answered
CycleRan == indicators # NoIndicators

NotSkipped == CycleRan /\ gateway.stop = "clear" /\ gateway.pos_ok

FracMin(a, b) == IF FracLt(b, a) THEN b ELSE a

\* the caps as the sizing rule states them
equityCap == max_amount(gateway.balance, indicators.price)

riskCap == risk_adjusted_amount(gateway.balance, indicators.atr)

-----------------------------------------------------------------------------
(* Claims on the recalibration cycle (SpecLive) *)

\* C1: with the stop cooldown enabled and stop_was_triggered() true, the
\* cycle returns having issued only the stop-history request: no position or
\* balance query, no create_order, no cancel_all_orders, whatever ma, ema,
\* atr and price are.
C1_CooldownSkip ==
    (CycleRan /\ WAIT_IF_STOP_LOSS /\ gateway.stop = "triggered") =>
        /\ err = "none"
        /\ calls = <<Request("stop_was_triggered")>>
        /\ ~Issued(calls, "search_current_position")
        /\ ~Issued(calls, "fetch_account_balance")
        /\ ~Issued(calls, "create_order")
        /\ ~Issued(calls, "cancel_all_orders")

\* a skipped cycle whose position and signal would otherwise have reversed
C1_Witness ==
    /\ CycleRan /\ gateway.stop = "triggered"
    /\ gateway.current.side = "buy" /\ indicators.ma > indicators.ema
    /\ gateway.bal_ok
    /\ Len(calls) = 1

\* C2: every order issued after sizing (the entry and its stop) has amount
\* min(equityCap, riskCap), and that amount never exceeds equityCap, for all
\* balance > 0, price > 0, atr > 0.
C2_SizingCap ==
    (CycleRan /\ gateway.balance > 0 /\ indicators.price > 0 /\ indicators.atr > 0) =>
        \A i \in DOMAIN AfterBalance(calls) :
            LET c == AfterBalance(calls)[i]
            IN  /\ IsOrder(c)
                /\ c.amount = FracMin(equityCap, riskCap)
                /\ FracLeq(c.amount, equityCap)

\* an entry sized by the equity cap, which is strictly below the risk cap
C2_Witness ==
    /\ CycleRan /\ Len(AfterBalance(calls)) = 2
    /\ FracLt(equityCap, riskCap)
    /\ AfterBalance(calls)[1].amount = equityCap

\* C3: in a non-skipped cycle on a long position with ma > ema the first
\* order is a market sell of exactly the position size, and the market sell
\* entry of the freshly sized amount comes only after it (it is there
\* whenever the balance query answers); symmetrically for a short position
\* with ema > ma, closed and re-entered by market buys.
C3_BiasFlipReversal ==
    LET flipLong == gateway.current.side = "buy" /\ indicators.ma > indicators.ema
        flipShort == gateway.current.side = "sell" /\ indicators.ema > indicators.ma
        side == IF flipLong THEN "sell" ELSE "buy"
        ords == Orders(calls)
        fresh == FracMin(equityCap, riskCap)
    IN  (NotSkipped /\ (flipLong \/ flipShort)) =>
            /\ Len(ords) >= 1
            /\ ords[1] = CreateOrder("market", side, gateway.current.size, NoParams)
            /\ calls[3] = ords[1]
            /\ BeforeCancel(calls) = <<ords[1]>>
            /\ gateway.bal_ok =>
                  /\ Len(ords) = 3
                  /\ ords[2] = CreateOrder("market", side, fresh, NoParams)
            /\ ~gateway.bal_ok => Len(ords) = 1

\* a long position reversed into a short of a different size
C3_Witness ==
    /\ NotSkipped /\ gateway.current.side = "buy" /\ indicators.ma > indicators.ema
    /\ Len(Orders(calls)) = 3
    /\ Orders(calls)[1].side = "sell" /\ Orders(calls)[2].side = "sell"
    /\ Orders(calls)[1].amount # Orders(calls)[2].amount

\* C4: a non-skipped cycle that is flat or reversing, and whose balance query
\* answers, issues after sizing exactly one market entry followed by exactly
\* one reduce-only stop of the same amount on the opposite side: sell then
\* stop buy at price + 2*atr when ma > ema, buy then stop sell at
\* price - 2*atr when ema > ma.  No stop is issued anywhere else in the cycle.
C4_EntryPlusStop ==
    LET cur == gateway.current
        reversing == \/ cur.side = "buy" /\ indicators.ma > indicators.ema
                     \/ cur.side = "sell" /\ indicators.ema > indicators.ma
        tail == AfterBalance(calls)
        entrySide == IF indicators.ma > indicators.ema THEN "sell" ELSE "buy"
        stopSide == IF indicators.ma > indicators.ema THEN "buy" ELSE "sell"
        trigger == IF indicators.ma > indicators.ema
                   THEN indicators.price + 2 * indicators.atr
                   ELSE indicators.price - 2 * indicators.atr
    IN  (NotSkipped /\ gateway.bal_ok /\ (~cur.present \/ reversing)
            /\ indicators.ma # indicators.ema) =>
            /\ Len(tail) = 2
            /\ tail[1].op = "create_order" /\ tail[1].type = "market"
            /\ tail[1].side = entrySide /\ ~tail[1].params.given
            /\ tail[2].op = "create_order" /\ tail[2].type = "stop"
            /\ tail[2].side = stopSide
            /\ tail[2].amount = tail[1].amount
            /\ tail[2].params.given /\ tail[2].params.reduceOnly
            /\ tail[2].params.triggerPrice = trigger
            /\ Cardinality({i \in DOMAIN calls : calls[i].type = "stop"}) = 1
            /\ calls[Len(calls)].type = "stop"

\* a short position reversed into a long with its stop below the price
C4_Witness ==
    /\ NotSkipped /\ gateway.current.side = "sell"
    /\ indicators.ema > indicators.ma
    /\ Len(calls) = 7
    /\ calls[6].type = "market" /\ calls[6].side = "buy"
    /\ calls[7].type = "stop" /\ calls[7].side = "sell"
    /\ calls[7].params.triggerPrice = indicators.price - 2 * indicators.atr

\* C6 (as claimed): in a non-skipped cycle a long position whose adverse
\* excursion entryPrice - price reaches 2*atr, or a short position whose
\* excursion price - entryPrice reaches 2*atr, is closed and repositioned
\* even when the averages do not call for it.
C6_AdverseExcursionReversal ==
    LET cur == gateway.current
        tripped == \/ cur.side = "buy"
                      /\ cur.entryPrice - indicators.price >= indicators.atr * 2
                   \/ cur.side = "sell"
                      /\ indicators.price - cur.entryPrice >= indicators.atr * 2
    IN  (NotSkipped /\ cur.present /\ tripped) =>
            /\ Len(BeforeCancel(calls)) = 1
            /\ BeforeCancel(calls)[1].amount = cur.size
            /\ Issued(calls, "cancel_all_orders")

\* C7: a cycle with ma = ema issues no create_order at all: no closing
\* order, no entry, no stop.
C7_TieBreak ==
    (CycleRan /\ indicators.ma = indicators.ema) => Orders(calls) = <<>>

\* a flat account at a tie: the cycle goes through sizing and orders nothing
C7_Witness ==
    /\ NotSkipped /\ indicators.ma = indicators.ema
    /\ ~gateway.current.present /\ gateway.bal_ok
    /\ Len(calls) = 4 /\ err = "none"

C11_InvalidSizingAborts ==
    /\ (CycleRan /\ Issued(calls, "fetch_account_balance") /\ gateway.bal_ok
            /\ (indicators.atr <= 0 \/ indicators.price <= 0)) =>
           (err # "none" /\ Orders(calls) = <<>>)
    /\ \A i \in DOMAIN AfterBalance(calls) :
           FracLt(<<0, 1>>, AfterBalance(calls)[i].amount)

\* a cycle that sized a position and entered it, and the amount it entered
Sized == CycleRan /\ Len(AfterBalance(calls)) = 2

Amount == AfterBalance(calls)[1].amount

\* two cycles in a row on the same balance and price, the second with the
\* larger atr
AtrRaised ==
    /\ Sized /\ Sized'
    /\ gateway'.balance = gateway.balance /\ gateway.balance > 0
    /\ indicators'.price = indicators.price /\ indicators.price > 0
    /\ 0 < indicators.atr /\ indicators.atr < indicators'.atr

\* C15 (as claimed): for fixed balance > 0 and price > 0 the sized amount is
\* strictly smaller at the larger of any two atr values 0 < atr1 < atr2,
\* also where the equity cap is the binding limit.
C15_StrictlyDecreasingInAtr ==
    [][AtrRaised => FracLt(Amount', Amount)]_vars

\* C15 (amended): for fixed balance > 0 and price > 0 and 0 < atr1 < atr2 the
\* sized amount at atr2 is never larger than at atr1; it is strictly smaller
\* when the risk cap is the binding limit at atr2, and when the equity cap
\* binds at atr2 both amounts are the equity cap.
C15_NonIncreasingInAtr ==
    [][AtrRaised =>
          /\ FracLeq(Amount', Amount)
          /\ FracLt(riskCap', equityCap') => FracLt(Amount', Amount)
          /\ FracLeq(equityCap', riskCap') =>
                (Amount' = equityCap' /\ Amount = equityCap')]_vars

\* an entry sized by the risk cap at an atr above the smallest positive one,
\* strictly smaller than the amount the same balance and price give below it
C15_Witness ==
    /\ Sized /\ indicators.atr > 1 /\ indicators.price > 0
    /\ FracLt(riskCap, equityCap) /\ Amount = riskCap
    /\ FracLt(Amount, new_amount(gateway.balance, indicators.price, indicators.atr - 1))

\* C17: in a non-skipped cycle on a position whose side agrees with the
\* signal (long with ma <= ema, short with ema <= ma) the cycle issues the
\* stop-history and position queries and nothing else: no create_order, no
\* cancel_all_orders, no fetch_account_balance, and no exception.
C17_HoldUntouched ==
    LET cur == gateway.current
        agrees == \/ cur.side = "buy" /\ indicators.ma <= indicators.ema
                  \/ cur.side = "sell" /\ indicators.ema <= indicators.ma
    IN  (NotSkipped /\ cur.present /\ agrees) =>
            /\ err = "none"
            /\ calls = <<Request("stop_was_triggered"),
                         Request("search_current_position")>>
            /\ ~Issued(calls, "create_order")
            /\ ~Issued(calls, "cancel_all_orders")
            /\ ~Issued(calls, "fetch_account_balance")

\* a short position held while ema < ma, on an account whose balance query
\* would have answered
C17_Witness ==
    /\ NotSkipped /\ gateway.current.side = "sell"
    /\ indicators.ema < indicators.ma /\ gateway.bal_ok
    /\ Len(calls) = 2 /\ err = "none"

\* C18: when fetch_account_balance raises in a cycle that reverses a
\* position, the cycle ends with that exception after exactly the closing
\* market order, cancel_all_orders and the balance query, in this order: no
\* entry and no stop.  When the stop-history query or the position query
\* raises, the cycle has issued no create_order and no cancel_all_orders.
C18_BalanceFailureHalfApplied ==
    LET cur == gateway.current
        flipLong == cur.side = "buy" /\ indicators.ma > indicators.ema
        flipShort == cur.side = "sell" /\ indicators.ema > indicators.ma
        closing == CreateOrder("market", IF flipLong THEN "sell" ELSE "buy",
                               cur.size, NoParams)
    IN  /\ (NotSkipped /\ (flipLong \/ flipShort) /\ ~gateway.bal_ok) =>
               /\ err # "none"
               /\ calls = <<Request("stop_was_triggered"),
                            Request("search_current_position"), closing,
                            Request("cancel_all_orders"),
                            Request("fetch_account_balance")>>
        /\ (CycleRan /\ (gateway.stop = "failed"
                            \/ (gateway.stop = "clear" /\ ~gateway.pos_ok))) =>
               /\ err # "none"
               /\ ~Issued(calls, "create_order")
               /\ ~Issued(calls, "cancel_all_orders")
               /\ ~Issued(calls, "fetch_account_balance")

\* a long position reversed by a cycle whose balance query raised
C18_Witness ==
    /\ NotSkipped /\ gateway.current.side = "buy"
    /\ indicators.ma > indicators.ema /\ ~gateway.bal_ok
    /\ err # "none" /\ Len(calls) = 5 /\ Len(Orders(calls)) = 1

-----------------------------------------------------------------------------
(* Claims on the backtest strategy (Spec) *)

Callbacks == {"onEnterOk", "onEnterCanceled", "onExitOk", "onExitCanceled"}

EnterOps == {"enterLongStop", "enterShortStop"}

\* C5: the long handle and the short handle are never both set.
C5_NoSimultaneousLongAndShort == ~(long # None /\ short # None)

\* a cycle whose first order exited the held position and whose second order
\* entered a new one: one handle is set, the other is not
C5_Witness ==
    /\ last.handler = "onBars" /\ Len(last.emitted) = 2
    /\ last.emitted[1].op = "exitMarket"
    /\ last.emitted[2].op \in EnterOps
    /\ (long # None) # (short # None)

\* C9: after onExitCanceled(position) the handler has raised nothing and has
\* asked the broker for exactly one market exit of that same position (same
\* side, same amount), whose exit order is outstanding again; the same holds
\* when the cancellation repeats.
C9_ExitCancelRetry ==
    last.handler = "onExitCanceled" =>
        /\ err = "none"
        /\ Len(last.emitted) = 1
        /\ last.emitted[1].op = "exitMarket"
        /\ last.emitted[1].position = last.position
        /\ last.emitted[1].side = pos[last.position].side
        /\ last.emitted[1].qty = pos[last.position].qty
        /\ pos[last.position].exit = "pending"

\* the exit of a reversed long position canceled twice in a row and
\* outstanding again
C9_Witness ==
    /\ last.handler = "onExitCanceled" /\ last.again /\ last.defined
    /\ was_long = "True" /\ long = None /\ pos[last.position].side = "long"
    /\ pos[last.position].exit = "pending"
    /\ Len(last.emitted) = 1

\* C10 (as claimed): a confirmation or cancellation that answers no
\* outstanding order of a held position (an entry event for a position that
\* is neither handle, an exit event with no exit outstanding) raises the
\* position error.
C10_UndefinedEventsRejected ==
    (last.handler \in Callbacks /\ ~last.defined) => err = POSITION_ERROR

\* an onBars call, and the account as the call finds it
BarStep == bar_count' = bar_count + 1

Flat == long = None /\ short = None /\ ~current_position.present

\* C12 (as claimed): an onBars cycle that is not skipped and starts Flat
\* raises nothing and ends with the long handle set and the short handle
\* unset when ema > ma, and with the short handle set and the long handle
\* unset when ma > ema.
C12_FlatToEntering ==
    [][(BarStep /\ Flat /\ indicators' # NoIndicators /\ gateway'.stop = "clear"
            /\ indicators'.ma # indicators'.ema) =>
          /\ err' = "none"
          /\ indicators'.ema > indicators'.ma => (long' # None /\ short' = None)
          /\ indicators'.ma > indicators'.ema => (short' # None /\ long' = None)]_vars

\* C13 (as claimed): Flat is no dead end after the first eligible bar: an
\* onBars call on a later bar that finds the account Flat with ma # ema goes
\* on to submit an entry, that is, its cycle issues a create_order.
C13_FlatNotTerminal ==
    [][(BarStep /\ Flat /\ bar_count' > longest_look
            /\ indicators'.ma # indicators'.ema) =>
          Issued(calls', "create_order")]_vars

C16_WarmupSkip ==
    [][BarStep =>
          /\ bar_count' < longest_look =>
                /\ indicators' = NoIndicators /\ calls' = <<>>
                /\ last'.emitted = <<>> /\ err' = err
                /\ UNCHANGED <<long, short, current_position, pos>>
          /\ bar_count' = longest_look =>
                /\ indicators' # NoIndicators
                /\ Issued(calls', "stop_was_triggered")]_vars

\* the last warm-up bar, passed with an entry pending that it left alone
C16_Witness ==
    /\ last.handler = "onBars" /\ bar_count = longest_look - 1
    /\ indicators = NoIndicators /\ calls = <<>>
    /\ long # None /\ pos[long].entry = "pending"

\* the gateway view matches the handles
ViewMatchesHandles ==
    /\ current_position.present <=> (long # None \/ short # None)
    /\ long # None => current_position.side = "buy"
    /\ short # None => current_position.side = "sell"

=============================================================================
